---------------------------- MODULE Spec2Model ----------------------------
(***************************************************************************)
(* State-machine model of the GpuScan device code of cuda_gpuscan.h:       *)
(*   gpuscan_writeback_results  (result accumulator)                       *)
(*   gpuscan_projection_row     (row-format projector)                     *)
(*   gpuscan_projection_slot    (slot-format projector)                    *)
(*   gpuscan_qual               (kernel entry point)                       *)
(*                                                                         *)
(* A kernel launch is NumGroups cooperating groups of GroupSize threads.   *)
(* A step of the model is either a collective step of one group (the code  *)
(* between two barriers: a scan, the atomicAdd of local thread 0 and the   *)
(* __syncthreads() that publishes the __shared__ result) or a step of one  *)
(* thread (the code a thread runs on its own after a barrier: a check      *)
(* that decides whether it returns or goes on to the next scan, or the     *)
(* code after the last barrier, which reads the shared counters of the     *)
(* destination and writes the thread's own range).                         *)
(* Groups interleave freely; the threads of one group interleave freely    *)
(* between barriers.                                                       *)
(*                                                                         *)
(* The source uses four identifiers under two spellings each               *)
(* (tuplen/tuple_len, prev_nitems/nitems_prev, prev_usage/usage_prev,      *)
(* tupitem_src/tupsrc) and kds for kds_src; the model reads each pair as   *)
(* one variable, the only reading under which the function is closed.      *)
(***************************************************************************)
EXTENDS Integers, Sequences, FiniteSets, TLC

(***************************************************************************)
(* Bounds of the model.                                                    *)
(***************************************************************************)
NumGroups == 2      \* cooperating groups in the launch
GroupSize == 3      \* threads per group (W)
MaxSrcItems == 5    \* rows of the source batch (kds_src->nitems)
MaxRooms == 5       \* largest roomCapacity (nrooms) tried
MaxEvalErrors == 1  \* most rows whose predicate evaluation raises an error

(***************************************************************************)
(* Layout constants of the surrounding device library.                     *)
(***************************************************************************)
MAXIMUM_ALIGNOF == 8
STROMALIGN_LEN == 16
offsetof_kern_tupitem_htup == 8
sizeof_cl_uint == 4

TYPEALIGN(alignval, len) == ((len + alignval - 1) \div alignval) * alignval
MAXALIGN(len) == TYPEALIGN(MAXIMUM_ALIGNOF, len)
STROMALIGN(len) == TYPEALIGN(STROMALIGN_LEN, len)

NumThreads == NumGroups * GroupSize
Threads == 0 .. (NumThreads - 1)
Groups == 0 .. (NumGroups - 1)
get_local_id(t) == t % GroupSize
get_group_id(t) == t \div GroupSize
ThreadsOf(g) == {t \in Threads : get_group_id(t) = g}

NULL == -1

StromError_Success == "Success"
StromError_DataStoreNoSpace == "DataStoreNoSpace"
StromError_Upstream == "CpuReCheck"

KDS_FORMAT_ROW == "ROW"
KDS_FORMAT_SLOT == "SLOT"

Min(a, b) == IF a < b THEN a ELSE b

RECURSIVE SumOver(_, _)
SumOver(f, S) ==
    IF S = {} THEN 0
    ELSE LET x == CHOOSE y \in S : TRUE IN f[x] + SumOver(f, S \ {x})


(***************************************************************************)
(* The input batch kds_src.  Row i carries a tuple item                    *)
(*   { cl_ushort t_len; ItemPointerData t_self; HeapTupleHeaderData htup } *)
(* whose htup part is t_len bytes long.  The batch is fixed; which of its  *)
(* rows exist and qualify is chosen in Init.                               *)
(***************************************************************************)
SrcTLen(i) == IF i % 2 = 0 THEN 5 ELSE 12

SrcItemLen(i) == offsetof_kern_tupitem_htup + SrcTLen(i)

\* byte k (0-based) of the tuple item of row i
SrcItemByte(i, k) ==
    IF k = 0 THEN SrcTLen(i)                 \* t_len, low byte
    ELSE IF k = 1 THEN 0                     \* t_len, high byte
    ELSE IF k < 6 THEN 0                     \* t_self.ip_blkid
    ELSE IF k = 6 THEN i + 1                 \* t_self.ip_posid, low byte
    ELSE IF k = 7 THEN 0                     \* t_self.ip_posid, high byte
    ELSE ((i * 16 + k) % 251) + 1            \* htup bytes

SrcItemBytes(i) == [k \in 1 .. SrcItemLen(i) |-> SrcItemByte(i, k - 1)]

\* a cl_uint stored in memory (little endian)
UIntBytes(v) == [k \in 1 .. sizeof_cl_uint |-> (v \div (256 ^ (k - 1))) % 256]

\* memcpy of 'bytes' to offset 'off', then the store of 'word' at offset
\* 'woff'; bytes falling outside the array are not part of the buffer and are
\* dropped from the model's view of it
MemWrite(mem, off, bytes, woff, word) ==
    [a \in (woff .. (woff + Len(word) - 1)) \cap DOMAIN mem |-> word[a - woff + 1]]
      @@ [a \in (off .. (off + Len(bytes) - 1)) \cap DOMAIN mem |-> bytes[a - off + 1]]
      @@ mem

(***************************************************************************)
(* kern_data_store layout.                                                 *)
(***************************************************************************)
KERN_DATA_STORE_HEAD_LENGTH == STROMALIGN_LEN

\* arena lengths tried for the row-format destination
ArenaLengths == {KERN_DATA_STORE_HEAD_LENGTH + STROMALIGN_LEN * k : k \in {4, 6, 9}}

\* room capacities tried for the result buffer and the destination
RoomChoices == {MaxRooms \div 2, MaxRooms - 2, MaxRooms}

VARIABLES
    entry,          \* the device function every thread of the launch runs
    nitems_src,     \* kds_src->nitems
    result,         \* gpuscan_writeback_results: argument 'result' of each thread
    qual,           \* gpuscan_qual: outcome of gpuscan_qual_eval for each row
    kresults,       \* kern_resultbuf: nrels, nitems, nrooms, results[]
    kds_dst,        \* kern_data_store header: format, nitems, nrooms, usage, length
    arena,          \* the bytes of a row-format kds_dst
    slots,          \* the row-slots of a slot-format kds_dst
    errcode,        \* the shared error cell (kgpuscan->errcode)
    base,           \* __shared__ base of each group (writeback, slot projector)
    prev_nitems,    \* __shared__ prev_nitems of each group (row projector)
    prev_usage,     \* __shared__ prev_usage of each group
    tupitem,        \* gpuscan_qual: tupitem of each thread (row index or NULL)
    kcxt_e,         \* kcxt.e.errcode of each thread
    item_index,     \* position a thread has stored to (results / index array / slot)
    htup_offset,    \* arena offset a thread has copied its tuple item to
    nscan,          \* calls of arithmetic_stairlike_add each thread has made
    natomic,        \* atomicAdd calls each thread has issued, per counter
    pc,             \* position of each thread in its function
    my_value,       \* arithmetic_stairlike_add: argument of each thread
    items,          \* arithmetic_stairlike_add: group-local partial sums
    scan_i,         \* arithmetic_stairlike_add: round each thread is in
    scan_pc,        \* arithmetic_stairlike_add: position of each thread
    scan_ret        \* arithmetic_stairlike_add: offset and total it returned

vars == <<entry, nitems_src, result, qual, kresults, kds_dst, arena, slots,
          errcode, base, prev_nitems, prev_usage, tupitem, kcxt_e, item_index,
          htup_offset, nscan, natomic, pc,
          my_value, items, scan_i, scan_pc, scan_ret>>

\* the variables of a stand-alone run of the scan
scanvars == <<my_value, items, scan_i, scan_pc, scan_ret>>

\* the variables of a launch of the kernel functions
launchvars == <<entry, nitems_src, result, qual, kresults, kds_dst, arena, slots,
                errcode, base, prev_nitems, prev_usage, tupitem, kcxt_e, item_index,
                htup_offset, nscan, natomic, pc>>

(***************************************************************************)
(* arithmetic_stairlike_add(value, &total) over one group: the exclusive   *)
(* prefix sum for the calling thread and the group total.                  *)
(***************************************************************************)
StairlikeOffset(val, t) ==
    SumOver(val, {u \in ThreadsOf(get_group_id(t)) : get_local_id(u) < get_local_id(t)})

StairlikeTotal(val, g) == SumOver(val, ThreadsOf(g))

AllAt(g, label) == \A t \in ThreadsOf(g) : pc[t] = label

\* every thread of group g has made one more call of the scan
ScanInvoked(g) ==
    [t \in Threads |-> IF get_group_id(t) = g THEN nscan[t] + 1 ELSE nscan[t]]

\* the thread of group g for which get_local_id() == 0 has issued one more
\* atomicAdd on the counter
AtomicIssued(g, counter) ==
    [t \in Threads |->
        IF get_group_id(t) = g /\ get_local_id(t) = 0
        THEN [natomic[t] EXCEPT ![counter] = @ + 1]
        ELSE natomic[t]]

\* mutant: local thread 0 issues the atomicAdd whatever the group total is
ReservesRange_Always(count) == TRUE

\* "if (count > 0)" in front of the atomicAdd of both projectors
ReservesRange(count) == count > 0

\* STROM_SET_ERROR: keeps an error the context already holds
STROM_SET_ERROR(e, code) == IF e = StromError_Success THEN code ELSE e

(***************************************************************************)
(* Initial state: buffers as the host hands them over (counters zero,      *)
(* memory zero), every thread at the start of the launched function.       *)
(***************************************************************************)
SrcItemsMax == Min(MaxSrcItems, NumThreads)

InitCommon ==
    /\ errcode = StromError_Success
    /\ base = [g \in Groups |-> 0]
    /\ prev_nitems = [g \in Groups |-> 0]
    /\ prev_usage = [g \in Groups |-> 0]
    /\ tupitem = [t \in Threads |-> NULL]
    /\ kcxt_e = [t \in Threads |-> StromError_Success]
    /\ item_index = [t \in Threads |-> NULL]
    /\ htup_offset = [t \in Threads |-> NULL]
    /\ nscan = [t \in Threads |-> 0]
    /\ natomic = [t \in Threads |-> [nitems |-> 0, usage |-> 0]]

\* no stand-alone run of the scan in a launch of the kernel functions
InitNoScan ==
    /\ my_value = [t \in Threads |-> 0]
    /\ items = [t \in Threads |-> 0]
    /\ scan_i = [t \in Threads |-> 0]
    /\ scan_pc = [t \in Threads |-> "none"]
    /\ scan_ret = [t \in Threads |-> [offset |-> NULL, total |-> NULL]]

InitWriteback ==
    /\ InitNoScan
    /\ entry = "gpuscan_writeback_results"
    /\ nitems_src = SrcItemsMax
    /\ result \in {r \in [Threads -> {-1, 0, 1}] :
                      \A t \in Threads : t >= nitems_src => r[t] = 0}
    /\ qual = [t \in Threads |-> "reject"]
    /\ \E nrooms \in RoomChoices :
          kresults = [nrels |-> 1, nitems |-> 0, nrooms |-> nrooms,
                      results |-> [i \in 0 .. (NumThreads - 1) |-> 0]]
    /\ kds_dst = [format |-> KDS_FORMAT_SLOT, nitems |-> 0, nrooms |-> 0,
                  usage |-> 0, length |-> 0]
    /\ arena = << >>
    /\ slots = << >>
    /\ pc = [t \in Threads |-> "writeback_scan"]

QualInputs ==
    {q \in [Threads -> {"pass", "reject", "error"}] :
        /\ \A t \in Threads : t >= SrcItemsMax => q[t] = "reject"
        /\ Cardinality({t \in Threads : q[t] = "error"}) <= MaxEvalErrors}

InitQual ==
    /\ InitNoScan
    /\ entry = "gpuscan_qual"
    /\ nitems_src = SrcItemsMax
    /\ result = [t \in Threads |-> 0]
    /\ qual \in QualInputs
    /\ kresults = [nrels |-> 1, nitems |-> 0, nrooms |-> 0, results |-> << >>]
    /\ pc = [t \in Threads |-> "qual_eval"]

InitRow ==
    /\ InitQual
    /\ \E nrooms \in RoomChoices, length \in ArenaLengths :
          /\ kds_dst = [format |-> KDS_FORMAT_ROW, nitems |-> 0,
                        nrooms |-> nrooms, usage |-> 0, length |-> length]
          /\ arena = [a \in 0 .. (length - 1) |-> 0]
    /\ slots = << >>

InitSlot ==
    /\ InitQual
    /\ \E nrooms \in RoomChoices :
          /\ kds_dst = [format |-> KDS_FORMAT_SLOT, nitems |-> 0,
                        nrooms |-> nrooms, usage |-> 0, length |-> 0]
          /\ slots = [i \in 0 .. (nrooms - 1) |-> NULL]
    /\ arena = << >>

Init == InitCommon /\ (InitWriteback \/ InitRow \/ InitSlot)

(***************************************************************************)
(* gpuscan_writeback_results                                               *)
(***************************************************************************)
\* mutant: only a pass (result > 0) takes a position, a recheck does not
binary_PassOnly == [t \in Threads |-> IF result[t] > 0 THEN 1 ELSE 0]

\* line 114
binary == [t \in Threads |-> IF result[t] # 0 THEN 1 ELSE 0]

\* lines 114-118: scan, atomicAdd by local thread 0, barrier
WritebackReserve(g) ==
    /\ entry = "gpuscan_writeback_results"
    /\ AllAt(g, "writeback_scan")
    /\ kresults.nrels = 1
    /\ LET nitems == StairlikeTotal(binary, g) IN
          /\ base' = [base EXCEPT ![g] = kresults.nitems]
          /\ kresults' = [kresults EXCEPT !.nitems = @ + nitems]
    /\ nscan' = ScanInvoked(g)
    /\ natomic' = AtomicIssued(g, "nitems")
    /\ pc' = [t \in Threads |-> IF get_group_id(t) = g THEN "writeback_store" ELSE pc[t]]
    /\ UNCHANGED <<entry, nitems_src, result, qual, kds_dst, arena, slots, errcode,
                   prev_nitems, prev_usage, tupitem, kcxt_e, item_index, htup_offset>>
    /\ UNCHANGED scanvars

\* lines 125-128: the thread stores its signed 1-based row index
WritebackStore(t) ==
    /\ pc[t] = "writeback_store"
    /\ LET result_index == t + 1
           pos == base[get_group_id(t)] + StairlikeOffset(binary, t)
       IN IF result[t] > 0
          THEN /\ kresults' = [kresults EXCEPT !.results[pos] = result_index]
               /\ item_index' = [item_index EXCEPT ![t] = pos]
          ELSE IF result[t] < 0
          THEN /\ kresults' = [kresults EXCEPT !.results[pos] = -result_index]
               /\ item_index' = [item_index EXCEPT ![t] = pos]
          ELSE UNCHANGED <<kresults, item_index>>
    /\ pc' = [pc EXCEPT ![t] = "done"]
    /\ UNCHANGED <<entry, nitems_src, result, qual, kds_dst, arena, slots, errcode,
                   base, prev_nitems, prev_usage, tupitem, kcxt_e, htup_offset,
                   nscan, natomic>>
    /\ UNCHANGED scanvars

(***************************************************************************)
(* gpuscan_qual, lines 331-347: predicate evaluation.  Thread-local (it    *)
(* reads only the read-only source batch), so the threads of one group are *)
(* taken together.  A row whose evaluation leaves an error in the context  *)
(* may return either boolean.                                              *)
(***************************************************************************)
QualEvalReturns(t) ==
    IF qual[t] = "pass" THEN {TRUE}
    ELSE IF qual[t] = "reject" THEN {FALSE}
    ELSE {TRUE, FALSE}

QualEvalError(t) ==
    IF qual[t] = "error" THEN StromError_Upstream ELSE StromError_Success

\* mutant: the error left in the context is not looked at
QualTupitem_IgnoresError(kds_index, ret, e) ==
    IF kds_index < nitems_src
    THEN IF ~ret THEN NULL ELSE kds_index
    ELSE NULL

\* tupitem of a thread after lines 336-347, given what gpuscan_qual_eval returned
QualTupitem(kds_index, ret, e) ==
    IF kds_index < nitems_src
    THEN IF ~ret THEN NULL
         ELSE IF e # StromError_Success THEN NULL
         ELSE kds_index
    ELSE NULL

GpuscanQualEval(g) ==
    /\ entry = "gpuscan_qual"
    /\ AllAt(g, "qual_eval")
    /\ \E ret \in [ThreadsOf(g) -> BOOLEAN] :
          /\ \A t \in ThreadsOf(g) : t < nitems_src => ret[t] \in QualEvalReturns(t)
          /\ \A t \in ThreadsOf(g) : t >= nitems_src => ret[t] = FALSE
          /\ tupitem' = [t \in Threads |->
                IF get_group_id(t) = g
                THEN QualTupitem(t, ret[t], QualEvalError(t))
                ELSE tupitem[t]]
    /\ kcxt_e' = [t \in Threads |->
          IF get_group_id(t) = g /\ t < nitems_src THEN QualEvalError(t) ELSE kcxt_e[t]]
    /\ pc' = [t \in Threads |->
          IF get_group_id(t) = g
          THEN (IF kds_dst.format = KDS_FORMAT_ROW THEN "row_step2" ELSE "slot_step1")
          ELSE pc[t]]
    /\ UNCHANGED <<entry, nitems_src, result, qual, kresults, kds_dst, arena, slots,
                   errcode, base, prev_nitems, prev_usage, item_index, htup_offset,
                   nscan, natomic>>
    /\ UNCHANGED scanvars

(***************************************************************************)
(* gpuscan_projection_row                                                  *)
(***************************************************************************)
\* mutant: every in-range thread counts as a row, rejected or not
has_row_InRange == [t \in Threads |-> IF t < nitems_src THEN 1 ELSE 0]

\* value each thread hands to the first scan (line 196)
has_row == [t \in Threads |-> IF tupitem[t] # NULL THEN 1 ELSE 0]

\* step.1, line 189 (no device projection)
tuple_len(t) == IF tupitem[t] # NULL THEN SrcTLen(tupitem[t]) ELSE 0

\* mutant: the tuple-item header in front of htup is left out of the size
RowRequired_NoHeader(t) == MAXALIGN(tuple_len(t))

\* step.3, line 216
RowRequired(t) == MAXALIGN(offsetof_kern_tupitem_htup + tuple_len(t))

required == [t \in Threads |-> RowRequired(t)]

\* mutant: the slot count is never found to overflow
RowNoSpaceItems_Never(g) == FALSE

\* mutant: the check reads the destination's counter as it is when the
\* thread gets there, not the group's own reservation
RowNoSpaceItems_ReadsCounter(g) == kds_dst.nitems > kds_dst.nrooms

\* mutant: a group that fills the destination exactly is refused
RowNoSpaceItems_OffByOne(g) ==
    prev_nitems[g] + StairlikeTotal(has_row, g) >= kds_dst.nrooms

\* line 206
RowNoSpaceItems(g) ==
    prev_nitems[g] + StairlikeTotal(has_row, g) > kds_dst.nrooms

\* lines 227-229, evaluated by one thread when it gets there
RowNoSpaceUsage(g) ==
    KERN_DATA_STORE_HEAD_LENGTH
      + STROMALIGN(sizeof_cl_uint * kds_dst.nitems)
      + prev_usage[g] + StairlikeTotal(required, g) > kds_dst.length

\* mutant: the inclusive prefix sum is used as the thread's offset
RowItemIndex_Inclusive(t) ==
    prev_nitems[get_group_id(t)] + StairlikeOffset(has_row, t) + has_row[t]

\* line 211
RowItemIndex(t) == prev_nitems[get_group_id(t)] + StairlikeOffset(has_row, t)

\* mutant: the thread's own length is not taken off
RowHtupOffset_NoOwnLength(t) ==
    kds_dst.length - (prev_usage[get_group_id(t)] + StairlikeOffset(required, t))

\* line 234
RowHtupOffset(t) ==
    kds_dst.length
      - (prev_usage[get_group_id(t)] + StairlikeOffset(required, t) + required[t])

\* step.2, lines 196-204: scan, atomicAdd on nitems by local thread 0, barrier
GpuscanProjectionRowStep2(g) ==
    /\ AllAt(g, "row_step2")
    /\ LET count == StairlikeTotal(has_row, g) IN
          IF ReservesRange(count)
          THEN /\ prev_nitems' = [prev_nitems EXCEPT ![g] = kds_dst.nitems]
               /\ kds_dst' = [kds_dst EXCEPT !.nitems = @ + count]
               /\ natomic' = AtomicIssued(g, "nitems")
          ELSE /\ prev_nitems' = [prev_nitems EXCEPT ![g] = 0]
               /\ UNCHANGED <<kds_dst, natomic>>
    /\ nscan' = ScanInvoked(g)
    /\ pc' = [t \in Threads |-> IF get_group_id(t) = g THEN "row_check" ELSE pc[t]]
    /\ UNCHANGED <<entry, nitems_src, result, qual, kresults, arena, slots, errcode,
                   base, prev_usage, tupitem, kcxt_e, item_index, htup_offset>>
    /\ UNCHANGED scanvars

\* lines 206-211: the slot-count check, made by each thread on its own after
\* the barrier of line 204; a thread that finds no room sets the error and
\* returns from the projector, the others go on to the scan of step.3
GpuscanProjectionRowCheck(t) ==
    /\ pc[t] = "row_check"
    /\ IF RowNoSpaceItems(get_group_id(t))
       THEN /\ kcxt_e' = [kcxt_e EXCEPT
                  ![t] = STROM_SET_ERROR(@, StromError_DataStoreNoSpace)]
            /\ pc' = [pc EXCEPT ![t] = "writeback_error"]
       ELSE /\ pc' = [pc EXCEPT ![t] = "row_step3"]
            /\ UNCHANGED kcxt_e
    /\ UNCHANGED <<entry, nitems_src, result, qual, kresults, kds_dst, arena, slots,
                   errcode, base, prev_nitems, prev_usage, tupitem, item_index,
                   htup_offset, nscan, natomic>>
    /\ UNCHANGED scanvars

\* step.3, lines 216-225: scan, atomicAdd on usage by local thread 0, barrier;
\* the scan and the barrier complete once every thread of the group is there
GpuscanProjectionRowStep3(g) ==
    /\ AllAt(g, "row_step3")
    /\ LET count == StairlikeTotal(required, g) IN
          IF ReservesRange(count)
          THEN /\ prev_usage' = [prev_usage EXCEPT ![g] = kds_dst.usage]
               /\ kds_dst' = [kds_dst EXCEPT !.usage = @ + count]
               /\ natomic' = AtomicIssued(g, "usage")
          ELSE /\ prev_usage' = [prev_usage EXCEPT ![g] = 0]
               /\ UNCHANGED <<kds_dst, natomic>>
    /\ nscan' = ScanInvoked(g)
    /\ pc' = [t \in Threads |-> IF get_group_id(t) = g THEN "row_step4" ELSE pc[t]]
    /\ UNCHANGED <<entry, nitems_src, result, qual, kresults, arena, slots, errcode,
                   base, prev_nitems, tupitem, kcxt_e, item_index, htup_offset>>
    /\ UNCHANGED scanvars

\* lines 227-255: the byte-usage check, which reads kds_dst->nitems as it is
\* when this thread gets there, then step.4: memcpy of the tuple item and the
\* store of its offset into the index array at KERN_DATA_STORE_BODY
GpuscanProjectionRowStep4(t) ==
    /\ pc[t] = "row_step4"
    /\ IF RowNoSpaceUsage(get_group_id(t))
       THEN /\ kcxt_e' = [kcxt_e EXCEPT
                  ![t] = STROM_SET_ERROR(@, StromError_DataStoreNoSpace)]
            /\ UNCHANGED <<arena, item_index, htup_offset>>
       ELSE /\ IF tupitem[t] # NULL
               THEN /\ arena' = MemWrite(arena,
                          RowHtupOffset(t), SrcItemBytes(tupitem[t]),
                          KERN_DATA_STORE_HEAD_LENGTH + sizeof_cl_uint * RowItemIndex(t),
                          UIntBytes(RowHtupOffset(t)))
                    /\ item_index' = [item_index EXCEPT ![t] = RowItemIndex(t)]
                    /\ htup_offset' = [htup_offset EXCEPT ![t] = RowHtupOffset(t)]
               ELSE UNCHANGED <<arena, item_index, htup_offset>>
            /\ UNCHANGED kcxt_e
    /\ pc' = [pc EXCEPT ![t] = "writeback_error"]
    /\ UNCHANGED <<entry, nitems_src, result, qual, kresults, kds_dst, slots, errcode,
                   base, prev_nitems, prev_usage, tupitem, nscan, natomic>>
    /\ UNCHANGED scanvars

(***************************************************************************)
(* gpuscan_projection_slot                                                 *)
(***************************************************************************)
\* line 289
SlotNoSpace(g) == base[g] + StairlikeTotal(has_row, g) > kds_dst.nrooms

\* mutant: every thread of the group stores at the group's base
SlotDstIndex_GroupBase(t) == base[get_group_id(t)]

\* line 298
SlotDstIndex(t) == base[get_group_id(t)] + StairlikeOffset(has_row, t)

\* step.1, lines 279-287: scan, atomicAdd on nitems by local thread 0, barrier
GpuscanProjectionSlotStep1(g) ==
    /\ AllAt(g, "slot_step1")
    /\ kds_dst.format = KDS_FORMAT_SLOT
    /\ LET count == StairlikeTotal(has_row, g) IN
          IF ReservesRange(count)
          THEN /\ base' = [base EXCEPT ![g] = kds_dst.nitems]
               /\ kds_dst' = [kds_dst EXCEPT !.nitems = @ + count]
               /\ natomic' = AtomicIssued(g, "nitems")
          ELSE /\ base' = [base EXCEPT ![g] = 0]
               /\ UNCHANGED <<kds_dst, natomic>>
    /\ nscan' = ScanInvoked(g)
    /\ pc' = [t \in Threads |-> IF get_group_id(t) = g THEN "slot_store" ELSE pc[t]]
    /\ UNCHANGED <<entry, nitems_src, result, qual, kresults, arena, slots, errcode,
                   prev_nitems, prev_usage, tupitem, kcxt_e, item_index, htup_offset>>
    /\ UNCHANGED scanvars

\* lines 289-316: the slot-count check, then deform_kern_heaptuple of the
\* source row into the values/isnull arrays of row-slot dst_index
GpuscanProjectionSlotStore(t) ==
    /\ pc[t] = "slot_store"
    /\ IF SlotNoSpace(get_group_id(t))
       THEN /\ kcxt_e' = [kcxt_e EXCEPT
                  ![t] = STROM_SET_ERROR(@, StromError_DataStoreNoSpace)]
            /\ UNCHANGED <<slots, item_index>>
       ELSE /\ IF tupitem[t] # NULL
               THEN /\ slots' = [slots EXCEPT ![SlotDstIndex(t)] = tupitem[t]]
                    /\ item_index' = [item_index EXCEPT ![t] = SlotDstIndex(t)]
               ELSE UNCHANGED <<slots, item_index>>
            /\ UNCHANGED kcxt_e
    /\ pc' = [pc EXCEPT ![t] = "writeback_error"]
    /\ UNCHANGED <<entry, nitems_src, result, qual, kresults, kds_dst, arena, errcode,
                   base, prev_nitems, prev_usage, tupitem, htup_offset, nscan, natomic>>
    /\ UNCHANGED scanvars

(***************************************************************************)
(* kern_writeback_error_status(&kgpuscan->errcode, kcxt.e), line 367: a    *)
(* group-wide step that stores an error some thread of the group holds     *)
(* into the shared cell, unless the cell already holds one.                *)
(***************************************************************************)
GroupErrors(g) == {kcxt_e[t] : t \in ThreadsOf(g)} \ {StromError_Success}

KernWritebackErrorStatus(g) ==
    /\ AllAt(g, "writeback_error")
    /\ IF errcode = StromError_Success /\ GroupErrors(g) # {}
       THEN errcode' \in GroupErrors(g)
       ELSE UNCHANGED errcode
    /\ pc' = [t \in Threads |-> IF get_group_id(t) = g THEN "done" ELSE pc[t]]
    /\ UNCHANGED <<entry, nitems_src, result, qual, kresults, kds_dst, arena, slots,
                   base, prev_nitems, prev_usage, tupitem, kcxt_e, item_index,
                   htup_offset, nscan, natomic>>
    /\ UNCHANGED scanvars

(***************************************************************************)
(* arithmetic_stairlike_add(my_value, &total_sum) as the design describes  *)
(* it: every thread stores its value into group-local storage; then, in    *)
(* each of ceil(log2 W) doubling rounds, a thread in the later half of     *)
(* its unit of 2^i threads adds the partial sum held by the last thread    *)
(* of the earlier half; a barrier of the whole group separates the store   *)
(* and the rounds.  The call returns the thread's partial sum less its own *)
(* value, and the partial sum of the group's last thread as the total.     *)
(***************************************************************************)
\* values handed to the scan: the binary values and an aligned length
ScanValues == {0, 1, MAXIMUM_ALIGNOF}

RECURSIVE CeilLog2(_)
CeilLog2(n) == IF n <= 1 THEN 0 ELSE 1 + CeilLog2((n + 1) \div 2)

ScanRounds == CeilLog2(GroupSize)

\* in round i the thread is in the later half of its unit of 2^i threads
ScanAdds(lid, i) == (lid \div (2 ^ (i - 1))) % 2 = 1

\* the last thread of the earlier half of that unit
ScanNeighbor(lid, i) == (lid - (lid % (2 ^ i))) + (2 ^ (i - 1)) - 1

GroupThread(g, lid) == g * GroupSize + lid

\* mutant: the barrier lets a thread go as soon as it arrives
BarrierComplete_None(g) == TRUE

\* __syncthreads(): every thread of the group has arrived
BarrierComplete(g) == \A t \in ThreadsOf(g) : scan_pc[t] = "barrier"

InitScan ==
    /\ entry = "arithmetic_stairlike_add"
    /\ nitems_src = SrcItemsMax
    /\ result = [t \in Threads |-> 0]
    /\ qual = [t \in Threads |-> "reject"]
    /\ kresults = [nrels |-> 1, nitems |-> 0, nrooms |-> 0, results |-> << >>]
    /\ kds_dst = [format |-> KDS_FORMAT_SLOT, nitems |-> 0, nrooms |-> 0,
                  usage |-> 0, length |-> 0]
    /\ arena = << >>
    /\ slots = << >>
    /\ pc = [t \in Threads |-> "scan"]
    /\ my_value \in [Threads -> ScanValues]
    /\ items = [t \in Threads |-> 0]
    /\ scan_i = [t \in Threads |-> 0]
    /\ scan_pc = [t \in Threads |-> "store"]
    /\ scan_ret = [t \in Threads |-> [offset |-> NULL, total |-> NULL]]

\* the thread stores its value and arrives at the first barrier
ScanStore(t) ==
    /\ scan_pc[t] = "store"
    /\ items' = [items EXCEPT ![t] = my_value[t]]
    /\ scan_i' = [scan_i EXCEPT ![t] = 1]
    /\ scan_pc' = [scan_pc EXCEPT ![t] = "barrier"]
    /\ UNCHANGED <<my_value, scan_ret>>
    /\ UNCHANGED launchvars

\* the barrier releases the threads waiting at it, into the next round or,
\* after the last round, to the return
ScanBarrier(g) ==
    /\ BarrierComplete(g)
    /\ \E t \in ThreadsOf(g) : scan_pc[t] = "barrier"
    /\ scan_pc' = [t \in Threads |->
          IF get_group_id(t) = g /\ scan_pc[t] = "barrier"
          THEN (IF scan_i[t] <= ScanRounds THEN "round" ELSE "return")
          ELSE scan_pc[t]]
    /\ UNCHANGED <<my_value, items, scan_i, scan_ret>>
    /\ UNCHANGED launchvars

\* one round of one thread, up to the next barrier
ScanRound(t) ==
    /\ scan_pc[t] = "round"
    /\ LET lid == get_local_id(t)
           j == GroupThread(get_group_id(t), ScanNeighbor(lid, scan_i[t]))
       IN items' = IF ScanAdds(lid, scan_i[t])
                   THEN [items EXCEPT ![t] = @ + items[j]]
                   ELSE items
    /\ scan_i' = [scan_i EXCEPT ![t] = @ + 1]
    /\ scan_pc' = [scan_pc EXCEPT ![t] = "barrier"]
    /\ UNCHANGED <<my_value, scan_ret>>
    /\ UNCHANGED launchvars

\* the values the call returns to the thread
ScanReturn(t) ==
    /\ scan_pc[t] = "return"
    /\ scan_ret' = [scan_ret EXCEPT ![t] =
          [offset |-> items[t] - my_value[t],
           total |-> items[GroupThread(get_group_id(t), GroupSize - 1)]]]
    /\ scan_pc' = [scan_pc EXCEPT ![t] = "returned"]
    /\ UNCHANGED <<my_value, items, scan_i>>
    /\ UNCHANGED launchvars

NextScan ==
    \/ \E t \in Threads : ScanStore(t)
    \/ \E g \in Groups : ScanBarrier(g)
    \/ \E t \in Threads : ScanRound(t)
    \/ \E t \in Threads : ScanReturn(t)

InitScanLaunch == InitCommon /\ InitScan

SpecScan == InitScanLaunch /\ [][NextScan]_vars

Next ==
    \/ \E g \in Groups : WritebackReserve(g)
    \/ \E t \in Threads : WritebackStore(t)
    \/ \E g \in Groups : GpuscanQualEval(g)
    \/ \E g \in Groups : GpuscanProjectionRowStep2(g)
    \/ \E t \in Threads : GpuscanProjectionRowCheck(t)
    \/ \E g \in Groups : GpuscanProjectionRowStep3(g)
    \/ \E t \in Threads : GpuscanProjectionRowStep4(t)
    \/ \E g \in Groups : GpuscanProjectionSlotStep1(g)
    \/ \E t \in Threads : GpuscanProjectionSlotStore(t)
    \/ \E g \in Groups : KernWritebackErrorStatus(g)

Spec == Init /\ [][Next]_vars

\* one launch of gpuscan_writeback_results
NextWriteback ==
    \/ \E g \in Groups : WritebackReserve(g)
    \/ \E t \in Threads : WritebackStore(t)

InitWritebackLaunch == InitCommon /\ InitWriteback

SpecWriteback == InitWritebackLaunch /\ [][NextWriteback]_vars

\* one launch of gpuscan_qual on a row-format destination
NextRow ==
    \/ \E g \in Groups : GpuscanQualEval(g)
    \/ \E g \in Groups : GpuscanProjectionRowStep2(g)
    \/ \E t \in Threads : GpuscanProjectionRowCheck(t)
    \/ \E g \in Groups : GpuscanProjectionRowStep3(g)
    \/ \E t \in Threads : GpuscanProjectionRowStep4(t)
    \/ \E g \in Groups : KernWritebackErrorStatus(g)

InitRowLaunch == InitCommon /\ InitRow

SpecRow == InitRowLaunch /\ [][NextRow]_vars

\* one launch of gpuscan_qual on a slot-format destination
NextSlot ==
    \/ \E g \in Groups : GpuscanQualEval(g)
    \/ \E g \in Groups : GpuscanProjectionSlotStep1(g)
    \/ \E t \in Threads : GpuscanProjectionSlotStore(t)
    \/ \E g \in Groups : KernWritebackErrorStatus(g)

InitSlotLaunch == InitCommon /\ InitSlot

SpecSlot == InitSlotLaunch /\ [][NextSlot]_vars

\* one launch of gpuscan_qual, on either destination, under weak fairness:
\* a step that can be taken is taken in the end.  Weak fairness of every
\* thread implies it (a step that is enabled stays enabled until it is
\* taken).  The destination is the tight one, in which a launch can
\* overflow on the slot count, on the bytes (row format), or not at all.
NextQual ==
    \/ \E g \in Groups : GpuscanQualEval(g)
    \/ \E g \in Groups : GpuscanProjectionRowStep2(g)
    \/ \E t \in Threads : GpuscanProjectionRowCheck(t)
    \/ \E g \in Groups : GpuscanProjectionRowStep3(g)
    \/ \E t \in Threads : GpuscanProjectionRowStep4(t)
    \/ \E g \in Groups : GpuscanProjectionSlotStep1(g)
    \/ \E t \in Threads : GpuscanProjectionSlotStore(t)
    \/ \E g \in Groups : KernWritebackErrorStatus(g)

TightRooms == MaxRooms - 2

TightLength == KERN_DATA_STORE_HEAD_LENGTH + STROMALIGN_LEN * 6

InitQualLaunch ==
    /\ InitCommon
    /\ \/ InitSlot /\ kds_dst.nrooms = TightRooms
       \/ InitRow /\ kds_dst.nrooms = TightRooms /\ kds_dst.length = TightLength

SpecQualFair == InitQualLaunch /\ [][NextQual]_vars /\ WF_vars(NextQual)

Done == \A t \in Threads : pc[t] = "done"

(***************************************************************************)
(* Vocabulary of the properties.                                           *)
(***************************************************************************)
\* rows the accumulator is asked to record
Qualifying == {t \in Threads : result[t] # 0}

\* the entry gpuscan_writeback_results stores for thread t
SignedIndex(t) == IF result[t] > 0 THEN t + 1 ELSE -(t + 1)

\* in-range rows for which the predicate holds without error
Passing == {t \in Threads : t < nitems_src /\ qual[t] = "pass"}

GroupCount(g) == Cardinality(Passing \cap ThreadsOf(g))

RaisedNoSpace(g) == \E t \in ThreadsOf(g) : kcxt_e[t] = StromError_DataStoreNoSpace

Wrote(t) == item_index[t] # NULL \/ htup_offset[t] # NULL

IsRow == entry = "gpuscan_qual" /\ kds_dst.format = KDS_FORMAT_ROW
IsSlot == entry = "gpuscan_qual" /\ kds_dst.format = KDS_FORMAT_SLOT
IsWriteback == entry = "gpuscan_writeback_results"

\* group g of a writeback launch has done its atomicAdd
Reserved(g) == \A t \in ThreadsOf(g) : pc[t] \in {"writeback_store", "done"}

(***************************************************************************)
(* C1: itemCount <= roomCapacity holds in every reachable state, for the   *)
(* result buffer and for the destination batch, also when more rows        *)
(* qualify than there are rooms.                                           *)
(***************************************************************************)
C1_ItemCountWithinRooms ==
    /\ IsWriteback => kresults.nitems <= kresults.nrooms
    /\ ~IsWriteback => kds_dst.nitems <= kds_dst.nrooms

(***************************************************************************)
(* C2: when a group's atomicAdd pushes the result buffer's nitems past     *)
(* nrooms (base + group count > nrooms), no thread of that group stores a  *)
(* row index, nothing is stored at a position >= nrooms, and once the      *)
(* launch is over an overflow error is recorded.                           *)
(***************************************************************************)
C2_WritebackOverflowExcluded ==
    IsWriteback =>
        \A g \in Groups :
            (Reserved(g) /\ base[g] + StairlikeTotal(binary, g) > kresults.nrooms) =>
                /\ \A t \in ThreadsOf(g) : ~Wrote(t)
                /\ \A p \in DOMAIN kresults.results :
                      p >= kresults.nrooms => kresults.results[p] = 0
                /\ Done => errcode # StromError_Success

(***************************************************************************)
(* C3: after every thread has run gpuscan_writeback_results, and the       *)
(* pass/recheck rows do not exceed nrooms, positions 0..nitems-1 of        *)
(* results[] hold, each exactly once, the 1-based indices of exactly the   *)
(* pass/recheck rows, positive for pass and negative for recheck; a        *)
(* rejected row appears nowhere.                                           *)
(***************************************************************************)
C3_RecordedIndices ==
    (IsWriteback /\ Done /\ Cardinality(Qualifying) <= kresults.nrooms) =>
        /\ kresults.nitems = Cardinality(Qualifying)
        /\ \A t \in Qualifying :
              Cardinality({p \in 0 .. (kresults.nitems - 1) :
                              kresults.results[p] = SignedIndex(t)}) = 1
        /\ \A p \in 0 .. (kresults.nitems - 1) :
              \E t \in Qualifying : kresults.results[p] = SignedIndex(t)
        /\ \A p \in DOMAIN kresults.results :
              p >= kresults.nitems => kresults.results[p] = 0
        /\ \A t \in Threads \ Qualifying, p \in DOMAIN kresults.results :
              kresults.results[p] # t + 1 /\ kresults.results[p] # -(t + 1)

\* a finished launch within capacity that recorded a pass, a recheck and a
\* reject, with rows of both groups recorded
C3_Witness ==
    /\ IsWriteback /\ Done
    /\ Cardinality(Qualifying) <= kresults.nrooms
    /\ \E t \in Threads : result[t] > 0
    /\ \E t \in Threads : result[t] < 0
    /\ \E t \in Threads : t < nitems_src /\ result[t] = 0
    /\ \A g \in Groups : \E t \in ThreadsOf(g) : Wrote(t)

(***************************************************************************)
(* C4: row-format arena, header counters: in every reachable state         *)
(* head + index extent (from nitems) + usage <= length.                    *)
(***************************************************************************)
C4_ArenaCountersDoNotCross ==
    IsRow =>
        KERN_DATA_STORE_HEAD_LENGTH + STROMALIGN(sizeof_cl_uint * kds_dst.nitems)
            + kds_dst.usage <= kds_dst.length

(***************************************************************************)
(* C5: usage <= length holds for the row-format destination in every       *)
(* reachable state.                                                        *)
(***************************************************************************)
C5_UsageWithinLength == IsRow => kds_dst.usage <= kds_dst.length

(***************************************************************************)
(* C6: if any thread of a group raises DataStoreNoSpace in                 *)
(* gpuscan_projection_row, no thread of that group writes tuple bytes or   *)
(* an index-array entry.                                                   *)
(***************************************************************************)
C6_GroupAllOrNothing ==
    IsRow => \A g \in Groups : RaisedNoSpace(g) => \A t \in ThreadsOf(g) : ~Wrote(t)

(***************************************************************************)
(* C7: overflow is isolated to the offending group: a group whose passing  *)
(* rows, together with the rows committed by the groups that raised no     *)
(* error, fit within nrooms (and, in row format, within the arena)         *)
(* commits all of its rows and raises no error, whatever other groups      *)
(* overflowed before it.                                                   *)
(***************************************************************************)
\* bytes group g asks for in step.3
GroupBytes(g) == StairlikeTotal(required, g)

CommittedGroupsBut(h) == {g \in Groups \ {h} : ~RaisedNoSpace(g)}

FitsBesideCommitted(h) ==
    LET others == CommittedGroupsBut(h)
        rows == GroupCount(h) + SumOver([g \in Groups |-> GroupCount(g)], others)
        bytes == GroupBytes(h) + SumOver([g \in Groups |-> GroupBytes(g)], others)
    IN /\ rows <= kds_dst.nrooms
       /\ IsRow =>
             KERN_DATA_STORE_HEAD_LENGTH + STROMALIGN(sizeof_cl_uint * rows) + bytes
                 <= kds_dst.length

C7_OverflowIsolated ==
    (entry = "gpuscan_qual" /\ Done) =>
        \A h \in Groups :
            FitsBesideCommitted(h) =>
                /\ ~RaisedNoSpace(h)
                /\ \A t \in Passing \cap ThreadsOf(h) : Wrote(t)

(***************************************************************************)
(* C8: no silent loss: if gpuscan_qual ends with the shared error cell     *)
(* equal to Success, the destination's nitems equals the number of         *)
(* in-range rows that passed the predicate, and every position             *)
(* 0..nitems-1 of the destination (index-array slot in row format,         *)
(* row-slot in slot format) was written exactly once, by a passing row.    *)
(***************************************************************************)
\* the cl_uint stored in index-array slot p of the row-format arena
ArenaIndexEntry(p) ==
    [k \in 1 .. sizeof_cl_uint |->
        arena[KERN_DATA_STORE_HEAD_LENGTH + sizeof_cl_uint * p + (k - 1)]]

PositionHolds(p, t) ==
    IF IsRow THEN ArenaIndexEntry(p) = UIntBytes(htup_offset[t])
    ELSE slots[p] = t

C8_NoSilentLoss ==
    (entry = "gpuscan_qual" /\ Done /\ errcode = StromError_Success) =>
        /\ kds_dst.nitems = Cardinality(Passing)
        /\ \A t \in Threads : Wrote(t) => t \in Passing
        /\ \A p \in 0 .. (kds_dst.nitems - 1) :
              /\ Cardinality({t \in Threads : item_index[t] = p}) = 1
              /\ \A t \in Threads : item_index[t] = p => PositionHolds(p, t)

\* a row-format launch that ended with Success and rows of both groups
C8_Witness ==
    /\ IsRow /\ Done /\ errcode = StromError_Success
    /\ \A g \in Groups : \E t \in ThreadsOf(g) : Wrote(t)
    /\ \E t \in Threads : t < nitems_src /\ qual[t] = "reject"

(***************************************************************************)
(* C9: determinism of the result set: for fixed inputs, grouping and       *)
(* buffer sizes, every inter-group order ends with the same nitems and     *)
(* the same set of recorded rows.  The outcome of the order "group 0,      *)
(* then group 1, ..." is computed from the inputs; the property is that    *)
(* every finished launch agrees with it.                                   *)
(***************************************************************************)
\* bytes thread t asks for in step.3, from the inputs
InputRequired(t) ==
    MAXALIGN(offsetof_kern_tupitem_htup + (IF t \in Passing THEN SrcTLen(t) ELSE 0))

InputGroupBytes(g) == SumOver([t \in Threads |-> InputRequired(t)], ThreadsOf(g))

\* rows materialized when groups g, g+1, ... run one after the other, each to
\* its end, from destination counters nitems and usage
RECURSIVE CanonicalRows(_, _, _)
CanonicalRows(g, nitems, usage) ==
    IF g >= NumGroups THEN {}
    ELSE LET count == GroupCount(g)
             prev == IF count > 0 THEN nitems ELSE 0
             n1 == nitems + count
         IN IF prev + count > kds_dst.nrooms
            THEN CanonicalRows(g + 1, n1, usage)
            ELSE IF IsRow
            THEN LET u1 == usage + InputGroupBytes(g) IN
                 IF KERN_DATA_STORE_HEAD_LENGTH + STROMALIGN(sizeof_cl_uint * n1) + u1
                        > kds_dst.length
                 THEN CanonicalRows(g + 1, n1, u1)
                 ELSE (Passing \cap ThreadsOf(g)) \cup CanonicalRows(g + 1, n1, u1)
            ELSE (Passing \cap ThreadsOf(g)) \cup CanonicalRows(g + 1, n1, usage)

Written == {t \in Threads : Wrote(t)}

RecordedValues == {kresults.results[p] : p \in DOMAIN kresults.results} \ {0}

InvocationFits ==
    /\ Cardinality(Passing) <= kds_dst.nrooms
    /\ IsRow =>
          KERN_DATA_STORE_HEAD_LENGTH
            + STROMALIGN(sizeof_cl_uint * Cardinality(Passing))
            + SumOver([g \in Groups |-> InputGroupBytes(g)], Groups) <= kds_dst.length

C10_VerbatimCopy ==
    IsRow =>
        /\ \A t \in Threads :
              Wrote(t) =>
                  /\ tupitem[t] # NULL /\ item_index[t] # NULL /\ htup_offset[t] # NULL
                  /\ ArenaIndexEntry(item_index[t]) = UIntBytes(htup_offset[t])
                  /\ \A k \in 0 .. (SrcItemLen(tupitem[t]) - 1) :
                        /\ htup_offset[t] + k \in DOMAIN arena
                        /\ arena[htup_offset[t] + k] = SrcItemByte(tupitem[t], k)
        /\ Done =>
              \A t \in Passing : kcxt_e[t] = StromError_Success => Wrote(t)

\* a finished launch in which every row of the batch, from both groups, survived
C10_Witness ==
    /\ IsRow /\ Done
    /\ Cardinality(Written) = SrcItemsMax
    /\ \A g \in Groups : \E t \in ThreadsOf(g) : Wrote(t)

(***************************************************************************)
(* C11: collective-call uniformity in gpuscan_qual: the threads of one     *)
(* group have always made the same number of scan calls; no thread of a    *)
(* group has left the projector while another thread of the group waits    *)
(* at the scan of step.3 (the branch on the slot-count check of            *)
(* gpuscan_projection_row is the same for the whole group); in             *)
(* gpuscan_projection_slot a group in which a thread took the error        *)
(* branch has no thread that took the else-branch and stored a row; and    *)
(* every thread, whatever the outcome of its row, has entered the          *)
(* projector and made its first scan call by the time it leaves.           *)
(***************************************************************************)
LeftProjector(t) == pc[t] \in {"writeback_error", "done"}

C11_CollectiveUniformity ==
    entry = "gpuscan_qual" =>
        /\ \A g \in Groups : \A t, u \in ThreadsOf(g) :
              /\ nscan[t] = nscan[u]
              /\ pc[t] = "row_step3" => ~LeftProjector(u)
        /\ IsSlot =>
              \A g \in Groups : RaisedNoSpace(g) => \A t \in ThreadsOf(g) : ~Wrote(t)
        /\ \A t \in Threads : LeftProjector(t) => nscan[t] >= 1

\* a finished row-format launch with an out-of-range thread, a rejected row
\* and a row demoted by an error, in which one group returned at the
\* slot-count check after one scan and the other made both scans
C11_Witness ==
    /\ IsRow /\ Done
    /\ \E t \in Threads : t >= nitems_src
    /\ \E t \in Threads : t < nitems_src /\ qual[t] = "reject"
    /\ \E t \in Threads : qual[t] = "error"
    /\ \E g, h \in Groups :
          /\ \A t \in ThreadsOf(g) : nscan[t] = 1
          /\ \A t \in ThreadsOf(h) : nscan[t] = 2

(***************************************************************************)
(* C12: termination: under weak fairness every thread of every group       *)
(* eventually finishes gpuscan_qual; no thread waits forever at a          *)
(* barrier, also when groups detect an overflow, and an overflow in one    *)
(* group does not keep the threads of another group from finishing.        *)
(***************************************************************************)
C12_Termination == <>Done

\* a finished launch in which one group raised DataStoreNoSpace and another
\* group raised nothing and wrote a row
C12_Witness ==
    /\ entry = "gpuscan_qual" /\ Done
    /\ \E g, h \in Groups :
          /\ RaisedNoSpace(g)
          /\ ~RaisedNoSpace(h)
          /\ \E t \in ThreadsOf(h) : Wrote(t)

(***************************************************************************)
(* C13: at most one writer per range: no two distinct threads, of one      *)
(* group or of two, have stored to the same position of the result         *)
(* buffer, the same index-array slot or the same row-slot, and the tuple   *)
(* byte ranges [htup_offset, htup_offset + required) of two writers of     *)
(* the row-format arena do not overlap.                                    *)
(***************************************************************************)
TupleRange(t) == htup_offset[t] .. (htup_offset[t] + RowRequired(t) - 1)

C13_OneWriterPerRange ==
    \A t, u \in Threads :
        (t # u /\ Wrote(t) /\ Wrote(u)) =>
            /\ item_index[t] # item_index[u]
            /\ IsRow => TupleRange(t) \cap TupleRange(u) = {}

\* a finished row-format launch in which two threads of one group and a
\* thread of another group have written
C13_Witness ==
    /\ IsRow /\ Done
    /\ \E t, u, v \in Threads :
          /\ t # u /\ get_group_id(t) = get_group_id(u) /\ get_group_id(v) # get_group_id(t)
          /\ Wrote(t) /\ Wrote(u) /\ Wrote(v)

(***************************************************************************)
(* C14: byte reservation size in gpuscan_projection_row: what a group      *)
(* adds to usage is the sum of the aligned tuple-item lengths of its       *)
(* passing rows only, a thread without a row contributing 0; so in every   *)
(* state usage is the sum, over the groups that have made the reservation  *)
(* of step.3, of the aligned lengths of their passing rows (a group        *)
(* without a passing row leaves usage as it was).                          *)
(***************************************************************************)
AlignedItemLen(t) == MAXALIGN(offsetof_kern_tupitem_htup + SrcTLen(t))

PassingBytes(g) ==
    SumOver([t \in Threads |-> IF t \in Passing THEN AlignedItemLen(t) ELSE 0],
            ThreadsOf(g))

\* groups that have been through the scan and the atomicAdd of step.3
ReservedBytes == {g \in Groups : \A t \in ThreadsOf(g) : nscan[t] = 2}

C14_BytesOfPassingRowsOnly ==
    IsRow =>
        kds_dst.usage = SumOver([g \in Groups |-> PassingBytes(g)], ReservedBytes)

(***************************************************************************)
(* C15: atomic operations per group in one projector invocation: only the  *)
(* thread with local id 0 issues an atomicAdd, at most one on nitems and   *)
(* at most one on usage (none on usage in slot format); the one on nitems  *)
(* comes after the group's first scan and the one on usage after its       *)
(* second; a group whose scan total is 0 issues no atomicAdd on that       *)
(* counter.                                                                *)
(***************************************************************************)
C15_AtomicsPerGroup ==
    entry = "gpuscan_qual" =>
        \A t \in Threads :
            LET g == get_group_id(t) IN
            /\ get_local_id(t) # 0 => natomic[t].nitems = 0 /\ natomic[t].usage = 0
            /\ natomic[t].nitems <= 1 /\ natomic[t].usage <= 1
            /\ IsSlot => natomic[t].usage = 0
            /\ natomic[t].nitems = 1 => nscan[t] >= 1
            /\ natomic[t].usage = 1 => nscan[t] = 2
            /\ (nscan[t] >= 1 /\ StairlikeTotal(has_row, g) = 0) => natomic[t].nitems = 0
            /\ (nscan[t] = 2 /\ StairlikeTotal(required, g) = 0) => natomic[t].usage = 0

\* a finished row-format launch in which one group, without a passing row,
\* issued no atomicAdd on nitems and another group issued both of its own
C15_Witness ==
    /\ IsRow /\ Done
    /\ \E t, u \in Threads :
          /\ get_local_id(t) = 0 /\ get_local_id(u) = 0
          /\ natomic[t].nitems = 0 /\ nscan[t] = 2
          /\ natomic[u].nitems = 1 /\ natomic[u].usage = 1

(***************************************************************************)
(* C16: predicate error demotion in gpuscan_qual: an in-range row whose    *)
(* evaluation left an error in the thread's context holds no row           *)
(* (tupitem = NULL) whichever boolean the predicate returned; it is not    *)
(* counted in the destination's nitems and never written; its thread       *)
(* still enters the projector; and the shared error cell is not Success    *)
(* once the launch is over.                                                *)
(***************************************************************************)
Demoted == {t \in Threads : t < nitems_src /\ qual[t] = "error"}

\* rows counted by the groups that have added to nitems
CountedRows ==
    {t \in Threads : nscan[t] >= 1 /\ has_row[t] = 1}

C16_ErrorDemotion ==
    entry = "gpuscan_qual" =>
        /\ \A t \in Demoted :
              /\ pc[t] # "qual_eval" =>
                    tupitem[t] = NULL /\ kcxt_e[t] # StromError_Success
              /\ ~Wrote(t)
              /\ t \notin CountedRows
              /\ LeftProjector(t) => nscan[t] >= 1
        /\ kds_dst.nitems = Cardinality(CountedRows)
        /\ (Done /\ Demoted # {}) => errcode # StromError_Success

\* a finished launch with a demoted row whose group also wrote a passing row
C16_Witness ==
    /\ entry = "gpuscan_qual" /\ Done
    /\ \E t \in Demoted : \E u \in ThreadsOf(get_group_id(t)) : Wrote(u)

(***************************************************************************)
(* C17: the scan primitive: for a group of W threads, with barriers        *)
(* between the doubling rounds and under every interleaving of the         *)
(* threads between barriers, every thread is returned the exclusive        *)
(* prefix sum of the values of the threads before it (0 for the first)     *)
(* and the same group total; so, when the values are binary, the           *)
(* positions base + offset of the threads holding 1 are exactly the        *)
(* contiguous block base .. base + total - 1.                              *)
(***************************************************************************)
Returned(g) == \A t \in ThreadsOf(g) : scan_pc[t] = "returned"

C17_ScanContract ==
    entry = "arithmetic_stairlike_add" =>
        /\ \A t \in Threads :
              scan_pc[t] = "returned" =>
                  /\ scan_ret[t].offset = StairlikeOffset(my_value, t)
                  /\ scan_ret[t].total = StairlikeTotal(my_value, get_group_id(t))
        /\ \A g \in Groups, b \in 0 .. 1 :
              (Returned(g) /\ \A t \in ThreadsOf(g) : my_value[t] \in {0, 1}) =>
                  {b + scan_ret[t].offset : t \in {u \in ThreadsOf(g) : my_value[u] = 1}}
                      = b .. (b + StairlikeTotal(my_value, g) - 1)

\* every thread has returned; one group scanned binary values with two
\* qualifying threads, another group scanned lengths
C17_Witness ==
    /\ entry = "arithmetic_stairlike_add"
    /\ \A g \in Groups : Returned(g)
    /\ \E g, h \in Groups :
          /\ \A t \in ThreadsOf(g) : my_value[t] \in {0, 1}
          /\ StairlikeTotal(my_value, g) = 2
          /\ \A t \in ThreadsOf(h) : my_value[t] = MAXIMUM_ALIGNOF

(***************************************************************************)
(* C18: written regions never collide: in every reachable state of         *)
(* gpuscan_projection_row every index-array entry that has been written    *)
(* lies entirely below every tuple byte that has been written, every       *)
(* written tuple byte range lies inside the arena, htup_offset >= head +   *)
(* index extent (the extent of the nitems slots the header counts) and     *)
(* htup_offset + required <= length, and the subtraction of line 234       *)
(* never goes below zero.                                                  *)
(***************************************************************************)
\* first byte past the index-array entry thread t has written
IndexEntryEnd(t) == KERN_DATA_STORE_HEAD_LENGTH + sizeof_cl_uint * (item_index[t] + 1)

\* a thread that is about to get through the check of lines 227-229
PassesUsageCheck(t) == pc[t] = "row_step4" /\ ~RowNoSpaceUsage(get_group_id(t))

WrittenRegionsApart ==
    /\ \A t, u \in Threads :
          (Wrote(t) /\ Wrote(u)) => IndexEntryEnd(t) <= htup_offset[u]
    /\ \A u \in Threads :
          Wrote(u) => htup_offset[u] + RowRequired(u) <= kds_dst.length
    /\ \A t \in Threads : PassesUsageCheck(t) => RowHtupOffset(t) >= 0

SlotCountOverflow(g) ==
    /\ \A t \in ThreadsOf(g) : nscan[t] >= 1
    /\ prev_nitems[g] + Cardinality(CountedRows \cap ThreadsOf(g)) > kds_dst.nrooms

C19_OverflowFrame ==
    IsRow =>
        \A g \in Groups :
            SlotCountOverflow(g) =>
                /\ prev_usage[g] = 0
                /\ \A t \in ThreadsOf(g) :
                      /\ nscan[t] = 1
                      /\ natomic[t].usage = 0
                      /\ ~Wrote(t)
                      /\ pc[t] # "row_check" =>
                            kcxt_e[t] # StromError_Success /\ LeftProjector(t)

\* a finished launch in which one group failed the slot-count check after
\* another group had reserved bytes and written a row
C19_Witness ==
    /\ IsRow /\ Done
    /\ \E g, h \in Groups :
          /\ SlotCountOverflow(g)
          /\ \E t \in ThreadsOf(h) : Wrote(t)
          /\ kds_dst.usage = StairlikeTotal(required, h)

(***************************************************************************)
(* C20: counters are never rolled back: no step of an invocation lowers    *)
(* the destination's nitems or usage, and every finished launch of         *)
(* gpuscan_qual, with or without overflow and in every order of the        *)
(* groups, ends with nitems equal to its initial value (0) plus the        *)
(* number of passing rows of all groups.                                   *)
(***************************************************************************)
C20_CountersNeverRolledBack ==
    /\ [][/\ kds_dst'.nitems >= kds_dst.nitems
          /\ kds_dst'.usage >= kds_dst.usage]_vars
    /\ []((entry = "gpuscan_qual" /\ Done) => kds_dst.nitems = Cardinality(Passing))

\* a finished launch that overflowed and left nitems above nrooms while a
\* row was written
C20_Witness ==
    /\ entry = "gpuscan_qual" /\ Done
    /\ kds_dst.nitems > kds_dst.nrooms
    /\ \E g \in Groups : RaisedNoSpace(g)
    /\ \E t \in Threads : Wrote(t)

=============================================================================
